---- MODULE Spec2Model ----
(***************************************************************************)
(* Knowledge-base population reader of jack                                *)
(* (jack/readers/knowledge_base_population/models.py):                     *)
(*   KnowledgeGraphEmbeddingInputModule   setup_from_data, preprocess,     *)
(*                                        create_batch                     *)
(*   KnowledgeGraphEmbeddingOutputModule  __call__                         *)
(*                                                                         *)
(* A text is a sequence of characters, a token a non-empty sequence of     *)
(* non-whitespace characters.  A call leaves its arguments and its         *)
(* outcome (the value returned, or the exception raised) in ret.           *)
(***************************************************************************)
EXTENDS Integers, Sequences, FiniteSets, TLC

VARIABLES
    entity_to_index,     \* self.entity_to_index: token -> index, once set
    predicate_to_index,  \* self.predicate_to_index: token -> index, once set
    config,              \* self.shared_resources.config: key -> value
    kbp_rng,             \* self._kbp_rng: state of the generator
    ret,                 \* the last call: operation, arguments, outcome
    kbp_rng2,            \* self._kbp_rng of a second input module
    ret2                 \* the last call of the second input module

vars == <<entity_to_index, predicate_to_index, config, kbp_rng, ret, kbp_rng2, ret2>>

-----------------------------------------------------------------------------
(* Bounds of the model *)

MaxData == 2        \* training pairs given to setup_from_data
MaxQuestions == 2   \* questions given to preprocess and to the output module
MaxBatch == 2       \* positive triples given to create_batch
MaxNeg == 2         \* largest configured num_negative
MaxLogits == 2      \* logits given to the output module
RngModulus == 4     \* number of states of the modelled generator

-----------------------------------------------------------------------------
(* Texts *)

Whitespace == {" ", "\t"}

\* tokens.  A token of two characters tells a split on whitespace from a
\* split into characters.
TokA == <<"a">>
TokB == <<"b">>
TokR == <<"r">>
TokS == <<"s">>
TokAB == <<"a", "b">>

\* how a text lays its tokens out: what precedes the first token, what
\* separates two tokens, what follows the last
Plain == [lead |-> <<>>, sep |-> <<" ">>, trail |-> <<>>]
Ragged == [lead |-> <<" ">>, sep |-> <<"\t", " ">>, trail |-> <<" ">>]
Layouts == {Plain, Ragged}

RECURSIVE JoinTokens(_, _)
JoinTokens(toks, sep) ==
    IF Len(toks) = 0 THEN <<>>
    ELSE IF Len(toks) = 1 THEN toks[1]
    ELSE toks[1] \o sep \o JoinTokens(Tail(toks), sep)

\* the text that shows the tokens toks in layout lay
Render(toks, lay) == lay.lead \o JoinTokens(toks, lay.sep) \o lay.trail

\* the token lists the inputs are drawn from: two well-formed triples, a
\* text of two tokens and a text of four
WellFormedTokens == {<<TokA, TokR, TokB>>, <<TokAB, TokS, TokAB>>}
MalformedTokens == {<<TokA, TokR>>, <<TokA, TokR, TokB, TokA>>}
TokenLists == WellFormedTokens \cup MalformedTokens

\* the question texts of the model
Texts ==
    {Render(<<TokA, TokR, TokB>>, Plain), Render(<<TokAB, TokS, TokAB>>, Ragged),
     Render(<<TokA, TokR>>, Plain), Render(<<TokA, TokR, TokB, TokA>>, Plain)}

\* str.split(): the maximal runs of non-whitespace characters of text from
\* position i on, cur being the run read so far
RECURSIVE SplitFrom(_, _, _)
SplitFrom(text, i, cur) ==
    IF i > Len(text) THEN (IF cur = <<>> THEN <<>> ELSE <<cur>>)
    ELSE IF text[i] \in Whitespace
         THEN (IF cur = <<>> THEN SplitFrom(text, i + 1, <<>>)
               ELSE <<cur>> \o SplitFrom(text, i + 1, <<>>))
         ELSE SplitFrom(text, i + 1, Append(cur, text[i]))

Split(text) == SplitFrom(text, 1, <<>>)

\* an unpacking that takes the first three values and drops the rest
UnpacksAtLeast3(toks) == Len(toks) >= 3

\* the unpacking  s, p, o = ...  succeeds on exactly three values
Unpacks3(toks) == Len(toks) = 3

\* sequences over S of length at most n
SeqsUpTo(S, n) == UNION {[1..m -> S] : m \in 0..n}

Range(f) == {f[x] : x \in DOMAIN f}

-----------------------------------------------------------------------------
(* The vocabulary *)

\* An attribute or a configuration key that may be missing is a set of at
\* most one value: {} while it is missing, {v} once it holds v.
Missing == {}
Holding(v) == {v}
IsSet(a) == a # {}
ValueOf(a) == CHOOSE v \in a : TRUE

\* a call's outcome
NoError == "none"

\* the subjects alone
EntitySetSubjectsOnly(triples) == {triples[i][1] : i \in DOMAIN triples}

\* the subjects and objects, and the predicates, of the split triples
EntitySet(triples) ==
    {triples[i][1] : i \in DOMAIN triples} \cup {triples[i][3] : i \in DOMAIN triples}

PredicateSet(triples) == {triples[i][2] : i \in DOMAIN triples}

\* {x: index for index, x in enumerate(s)}: the set s is enumerated in an
\* order the language does not fix, so every numbering of s by
\* 0 .. len(s)-1 is a possible result
Enumerations(s) ==
    {f \in [s -> 0..(Cardinality(s) - 1)] : \A x, y \in s : f[x] = f[y] => x = y}

\* what setup_from_data makes of the training questions: the split
\* triples, and whether every one of them unpacks into s, p, o
SplitAll(texts) == [i \in DOMAIN texts |-> Split(texts[i])]

AllUnpack(triples) == \A i \in DOMAIN triples : Unpacks3(triples[i])

\* map.get(tok, 0): an unknown token is given index 0
LookupOrZero(map, tok) ==
    [found |-> TRUE, index |-> IF tok \in DOMAIN map THEN map[tok] ELSE 0]

\* map[tok], when tok is a key of map
Lookup(map, tok) ==
    IF tok \in DOMAIN map THEN [found |-> TRUE, index |-> map[tok]]
    ELSE [found |-> FALSE, index |-> 0]

-----------------------------------------------------------------------------
(* Calls and their outcomes *)

EmptyBatch == [ports |-> {}, question |-> [shape |-> <<0>>, data |-> <<>>],
               target |-> [shape |-> <<0>>, data |-> <<>>]]

NoCall ==
    [op |-> "init", texts |-> <<>>, triples |-> <<>>, logits |-> <<>>,
     answers |-> FALSE, is_eval |-> FALSE, with_answers |-> FALSE,
     err |-> NoError, out |-> <<>>, batch |-> EmptyBatch]

-----------------------------------------------------------------------------
(* KnowledgeGraphEmbeddingInputModule.__init__ *)

Seed == 123

\* random.Random(seed): the state of a generator seeded with seed.  The
\* generator is a deterministic function of its state: the model keeps
\* that, and abstracts the state to a position in a stream of RngModulus
\* numbers.
SeededRng(seed) == seed % RngModulus

\* a generator seeded per instance
NewRngPerInstance(instance) == SeededRng(Seed + instance)

\* self._kbp_rng = random.Random(123), in every instance
NewRng(instance) == SeededRng(Seed)

\* the state after one draw, and the value randint(lo, hi) draws in state x
NextRng(x) == (x + 1) % RngModulus

Randint(x, lo, hi) == lo + (((x * (x + 1)) \div 2) % (hi - lo + 1))

\* the configuration the module is constructed with: no vocabulary yet, and
\* num_negative as the caller configured it
ConfigWith(num_negative) ==
    [num_negative |-> num_negative, entity_to_index |-> Missing,
     predicate_to_index |-> Missing]

Init ==
    /\ entity_to_index = Missing
    /\ predicate_to_index = Missing
    /\ config = ConfigWith(Missing)
    /\ kbp_rng = NewRng(1)
    /\ ret = NoCall
    /\ kbp_rng2 = NewRng(2)
    /\ ret2 = NoCall

-----------------------------------------------------------------------------
(* setup_from_data *)

SetupFromData(data) ==
    LET triples == SplitAll(data)
        call == [NoCall EXCEPT !.op = "setup_from_data", !.texts = data]
    IN  IF ~AllUnpack(triples)
        THEN \* the unpacking in the set comprehension raises
             /\ ret' = [call EXCEPT !.err = "ValueError"]
             /\ UNCHANGED <<entity_to_index, predicate_to_index, config>>
        ELSE \E e2i \in Enumerations(EntitySet(triples)),
                p2i \in Enumerations(PredicateSet(triples)) :
                /\ entity_to_index' = Holding(e2i)
                /\ predicate_to_index' = Holding(p2i)
                /\ config' = [config EXCEPT !.entity_to_index = Holding(e2i),
                                            !.predicate_to_index = Holding(p2i)]
                /\ ret' = call

SetupFromDataCall ==
    /\ \E data \in SeqsUpTo(Texts, MaxData) : SetupFromData(data)
    /\ UNCHANGED <<kbp_rng, kbp_rng2, ret2>>

-----------------------------------------------------------------------------
(* preprocess *)

\* the exception the loop body raises on one question, or NoError
QuestionError(text) ==
    LET toks == Split(text)
    IN  IF ~Unpacks3(toks) THEN "ValueError"
        ELSE IF ~IsSet(entity_to_index) THEN "AttributeError"
        ELSE IF ~Lookup(ValueOf(entity_to_index), toks[1]).found THEN "KeyError"
        ELSE IF ~Lookup(ValueOf(entity_to_index), toks[3]).found THEN "KeyError"
        ELSE IF ~Lookup(ValueOf(predicate_to_index), toks[2]).found THEN "KeyError"
        ELSE NoError

\* [s_idx, p_idx, o_idx] of a question that raises nothing
IndexedTriple(text) ==
    LET toks == Split(text)
    IN  <<Lookup(ValueOf(entity_to_index), toks[1]).index,
          Lookup(ValueOf(predicate_to_index), toks[2]).index,
          Lookup(ValueOf(entity_to_index), toks[3]).index>>

\* the exception of the first question that raises one, or NoError
RECURSIVE PreprocessError(_)
PreprocessError(questions) ==
    IF questions = <<>> THEN NoError
    ELSE IF QuestionError(Head(questions)) # NoError THEN QuestionError(Head(questions))
    ELSE PreprocessError(Tail(questions))

\* nothing is converted for an evaluation call
PreprocessResultSkipsEval(questions, answers, is_eval) ==
    IF is_eval THEN <<>> ELSE [i \in DOMAIN questions |-> IndexedTriple(questions[i])]

\* the list the loop builds: a triple per question, in order
PreprocessResult(questions, answers, is_eval) ==
    [i \in DOMAIN questions |-> IndexedTriple(questions[i])]

Preprocess(questions, answers, is_eval) ==
    LET call == [NoCall EXCEPT !.op = "preprocess", !.texts = questions,
                               !.answers = answers, !.is_eval = is_eval]
        err == PreprocessError(questions)
    IN  /\ ret' = IF err # NoError THEN [call EXCEPT !.err = err]
                  ELSE [call EXCEPT !.out = PreprocessResult(questions, answers, is_eval)]
        /\ UNCHANGED <<entity_to_index, predicate_to_index, config>>

PreprocessCall ==
    /\ \E questions \in SeqsUpTo(Texts, MaxQuestions), answers \in BOOLEAN,
          is_eval \in BOOLEAN : Preprocess(questions, answers, is_eval)
    /\ UNCHANGED <<kbp_rng, kbp_rng2, ret2>>

-----------------------------------------------------------------------------
(* create_batch *)

\* numpify: a list of rows as a dense array, short rows padded with 0; a
\* list of numbers as a vector
Max(S) == CHOOSE x \in S : \A y \in S : y <= x

NumpifyRows(rows) ==
    IF rows = <<>> THEN [shape |-> <<0>>, data |-> <<>>]
    ELSE LET width == Max({Len(rows[i]) : i \in DOMAIN rows})
         IN  [shape |-> <<Len(rows), width>>,
              data |-> IF \A i \in DOMAIN rows : Len(rows[i]) = width THEN rows
                       ELSE [i \in DOMAIN rows |->
                               [j \in 1..width |->
                                  IF j <= Len(rows[i]) THEN rows[i][j] ELSE 0]]]

NumpifyVector(xs) == [shape |-> <<Len(xs)>>, data |-> xs]

Numpify(xy_dict) ==
    [ports |-> xy_dict.ports,
     question |-> NumpifyRows(xy_dict.question),
     target |-> NumpifyVector(xy_dict.target)]

\* config.get('num_negative', 0): no corruption unless configured
NumNegativeDefaultZero ==
    IF IsSet(config.num_negative) THEN ValueOf(config.num_negative) ELSE 0

\* self.shared_resources.config.get('num_negative', 1)
NumNegative == IF IsSet(config.num_negative) THEN ValueOf(config.num_negative) ELSE 1

\* len(self.entity_to_index)
NbEntities == Cardinality(DOMAIN ValueOf(entity_to_index))

\* the corruption loop runs whatever is_eval
CorruptsAlways(is_eval) == TRUE

\* the corruption loop runs when the batch is not an evaluation batch
Corrupts(is_eval) == ~is_eval

\* the object-corrupted row appended first
CorruptedPairObjectFirst(t, random_subject_index, random_object_index) ==
    << <<t[1], t[2], random_object_index>>, <<random_subject_index, t[2], t[3]>> >>

\* the two rows one repetition appends for the positive t, from the two
\* values drawn: the subject is drawn first
CorruptedPair(t, random_subject_index, random_object_index) ==
    << <<random_subject_index, t[2], t[3]>>, <<t[1], t[2], random_object_index>> >>

\* the inner loop, j repetitions to go: the rows appended for the positive
\* t and the generator's state afterwards
RECURSIVE CorruptTriple(_, _, _, _)
CorruptTriple(rng, t, j, nb) ==
    IF j = 0 THEN [rows |-> <<>>, rng |-> rng]
    ELSE LET random_subject_index == Randint(rng, 0, nb - 1)
             rng1 == NextRng(rng)
             random_object_index == Randint(rng1, 0, nb - 1)
             rng2 == NextRng(rng1)
             rest == CorruptTriple(rng2, t, j - 1, nb)
         IN  [rows |-> CorruptedPair(t, random_subject_index, random_object_index)
                         \o rest.rows,
              rng |-> rest.rng]

\* the outer loop from the i-th positive on
RECURSIVE CorruptFrom(_, _, _, _, _)
CorruptFrom(rng, positives, i, k, nb) ==
    IF i > Len(positives) THEN [rows |-> <<>>, rng |-> rng]
    ELSE LET here == CorruptTriple(rng, positives[i], k, nb)
             rest == CorruptFrom(here.rng, positives, i + 1, k, nb)
         IN  [rows |-> here.rows \o rest.rows, rng |-> rest.rng]

\* [1] * len(triples)
PositiveTargets(n) == [i \in 1..n |-> 1]

\* the targets appended along with m corrupted rows: two rows a repetition,
\* one per repetition
NegativeTargetsOnePerPair(m) == [i \in 1..(m \div 2) |-> 0]

\* the targets appended along with m corrupted rows: a 0 for each
NegativeTargets(m) == [i \in 1..m |-> 0]

\* the exception create_batch raises, or NoError: the first draw reads
\* self.entity_to_index and draws from range(0, len - 1)
CreateBatchError(triples, is_eval) ==
    IF Corrupts(is_eval) /\ Len(triples) > 0 /\ NumNegative > 0
    THEN IF ~IsSet(entity_to_index) THEN "AttributeError"
         ELSE IF NbEntities = 0 THEN "ValueError"
         ELSE NoError
    ELSE NoError

\* what create_batch returns from generator state rng, and the state it
\* leaves the generator in
CreateBatchFrom(rng, triples, is_eval, with_answers) ==
    LET neg == IF Corrupts(is_eval)
               THEN CorruptFrom(rng, triples, 1, NumNegative, NbEntities)
               ELSE [rows |-> <<>>, rng |-> rng]
        target == IF with_answers
                  THEN PositiveTargets(Len(triples))
                         \o NegativeTargets(Len(neg.rows))
                  ELSE <<>>
        xy_dict == [ports |-> IF with_answers THEN {"question", "target"} ELSE {"question"},
                    question |-> triples \o neg.rows,
                    target |-> target]
    IN  [batch |-> Numpify(xy_dict), rng |-> neg.rng]

\* the call from generator state rng: the record it leaves in ret, and the
\* state it leaves the generator in (unchanged when the call raises)
CreateBatchOutcome(rng, triples, is_eval, with_answers) ==
    LET call == [NoCall EXCEPT !.op = "create_batch", !.triples = triples,
                               !.is_eval = is_eval, !.with_answers = with_answers]
        err == CreateBatchError(triples, is_eval)
        done == CreateBatchFrom(rng, triples, is_eval, with_answers)
    IN  IF err # NoError THEN [ret |-> [call EXCEPT !.err = err], rng |-> rng]
        ELSE [ret |-> [call EXCEPT !.batch = done.batch], rng |-> done.rng]

CreateBatch(triples, is_eval, with_answers) ==
    LET outcome == CreateBatchOutcome(kbp_rng, triples, is_eval, with_answers)
    IN  /\ ret' = outcome.ret
        /\ kbp_rng' = outcome.rng
        /\ UNCHANGED <<entity_to_index, predicate_to_index, config>>

\* the indexed triples of the current vocabulary
IndexedTriples ==
    IF IsSet(entity_to_index)
    THEN Range(ValueOf(entity_to_index)) \X Range(ValueOf(predicate_to_index))
           \X Range(ValueOf(entity_to_index))
    ELSE {}

\* a batch of any indexed triples
CreateBatchCall ==
    /\ \E triples \in SeqsUpTo(IndexedTriples, MaxBatch), is_eval \in BOOLEAN,
          with_answers \in BOOLEAN : CreateBatch(triples, is_eval, with_answers)
    /\ UNCHANGED <<kbp_rng2, ret2>>

\* the batch of the triples the preceding preprocess call returned
CreateBatchOfPreprocessed ==
    /\ ret.op = "preprocess"
    /\ ret.err = NoError
    /\ \E is_eval \in BOOLEAN, with_answers \in BOOLEAN :
          CreateBatch(ret.out, is_eval, with_answers)
    /\ UNCHANGED <<kbp_rng2, ret2>>

-----------------------------------------------------------------------------
(* The input module from construction on: the vocabulary is built, and
   questions are preprocessed before and after *)

Next ==
    \/ SetupFromDataCall
    \/ PreprocessCall

Spec == Init /\ [][Next]_vars

-----------------------------------------------------------------------------
(* create_batch on a built vocabulary *)

\* the training sets of one well-formed triple: one entity (the subject is
\* the object) or two
BatchTrainingSets == {<<Render(toks, lay)>> : toks \in WellFormedTokens, lay \in Layouts}

\* num_negative as configured: missing, or 0 .. MaxNeg
NumNegativeConfigs == {Missing} \cup {Holding(k) : k \in 0..MaxNeg}

\* the state setup_from_data leaves a freshly constructed module in, when
\* it numbers the tokens of data as e2i and p2i
Built(data, num_negative, e2i, p2i) ==
    /\ entity_to_index = Holding(e2i)
    /\ predicate_to_index = Holding(p2i)
    /\ config = [ConfigWith(num_negative) EXCEPT
                    !.entity_to_index = Holding(e2i),
                    !.predicate_to_index = Holding(p2i)]
    /\ kbp_rng = NewRng(1)
    /\ ret = NoCall
    /\ kbp_rng2 = NewRng(2)
    /\ ret2 = NoCall

\* one of the numberings: create_batch reads the vocabulary through
\* len(self.entity_to_index) alone, and its triples are indices already
AnEnumeration(s) == CHOOSE f \in Enumerations(s) : TRUE

\* the vocabulary built, num_negative configured or not
InitBatch ==
    \E data \in BatchTrainingSets, num_negative \in NumNegativeConfigs :
        Built(data, num_negative, AnEnumeration(EntitySet(SplitAll(data))),
              AnEnumeration(PredicateSet(SplitAll(data))))

\* the vocabulary built in any numbering, under the default configuration
InitBuilt ==
    \E data \in BatchTrainingSets :
        \E e2i \in Enumerations(EntitySet(SplitAll(data))),
           p2i \in Enumerations(PredicateSet(SplitAll(data))) :
            Built(data, Missing, e2i, p2i)

NextBatch == CreateBatchCall

SpecBatch == InitBatch /\ [][NextBatch]_vars

-----------------------------------------------------------------------------
(* The input module once the vocabulary is built: questions are
   preprocessed and the triples returned are made a batch *)

NextBuilt ==
    \/ PreprocessCall
    \/ CreateBatchOfPreprocessed

SpecBuilt == InitBuilt /\ [][NextBuilt]_vars

-----------------------------------------------------------------------------
(* Two input modules constructed the same way, given the same calls *)

CreateBatchOnBoth ==
    \E triples \in SeqsUpTo(IndexedTriples, MaxBatch), is_eval \in BOOLEAN,
       with_answers \in BOOLEAN :
        /\ CreateBatch(triples, is_eval, with_answers)
        /\ LET outcome2 == CreateBatchOutcome(kbp_rng2, triples, is_eval, with_answers)
           IN  /\ ret2' = outcome2.ret
               /\ kbp_rng2' = outcome2.rng

NextRepro == CreateBatchOnBoth

SpecRepro == InitBatch /\ [][NextRepro]_vars

-----------------------------------------------------------------------------
(* KnowledgeGraphEmbeddingOutputModule.__call__ *)

\* the scores of the model: logits stand for floats
Logits == {-1, 0, 1}

\* Answer(question.question, score=score)
Answer(text, score) == [text |-> text, score |-> score]

\* logits[index_in_batch] raises past the end of logits
OutputError(inputs, logits) ==
    IF \E i \in DOMAIN inputs : i > Len(logits) THEN "IndexError" ELSE NoError

\* the first score, whatever the index
ScoreAtFirst(logits, index) == logits[1]

\* the score read for the index-th input
ScoreAt(logits, index) == logits[index]

OutputResults(inputs, logits) ==
    [index \in DOMAIN inputs |-> Answer(inputs[index], ScoreAt(logits, index))]

OutputCall(inputs, logits) ==
    LET call == [NoCall EXCEPT !.op = "__call__", !.texts = inputs, !.logits = logits]
        err == OutputError(inputs, logits)
    IN  /\ ret' = IF err # NoError THEN [call EXCEPT !.err = err]
                  ELSE [call EXCEPT !.out = OutputResults(inputs, logits)]
        /\ UNCHANGED <<entity_to_index, predicate_to_index, config, kbp_rng, kbp_rng2, ret2>>

OutputCallAny ==
    \E inputs \in SeqsUpTo(Texts, MaxQuestions), logits \in SeqsUpTo(Logits, MaxLogits) :
        OutputCall(inputs, logits)

NextOut == OutputCallAny

SpecOut == Init /\ [][NextOut]_vars

-----------------------------------------------------------------------------
(* Properties *)

\* the token lists a text shows, read off the layouts and not by Split
TokensShown(text) ==
    {toks \in TokenLists : \E lay \in Layouts : Render(toks, lay) = text}

\* the rows of a returned array
Rows(array) == array.data

\* the positives of the last create_batch call, and their number
Positives == ret.triples
N == Len(ret.triples)

\* num_negative as the configuration gives it, 1 when it gives none
ConfiguredNegatives(k) ==
    \/ config.num_negative = {k}
    \/ config.num_negative = {} /\ k = 1

\* C1: create_batch with is_eval = False on n positives returns a
\* "question" array of exactly n * (1 + 2k) rows, k being the configured
\* num_negative, or 1 when none is configured; k = 0 gives n rows.
C1_NegativeSamplingVolume ==
    (ret.op = "create_batch" /\ ~ret.is_eval) =>
        /\ ret.err = NoError
        /\ "question" \in ret.batch.ports
        /\ \A k \in 0..MaxNeg :
              ConfiguredNegatives(k) =>
                  /\ Len(Rows(ret.batch.question)) = N * (1 + 2 * k)
                  /\ ret.batch.question.shape[1] = N * (1 + 2 * k)

C1_Witness ==
    /\ ret.op = "create_batch" /\ ~ret.is_eval
    /\ N = 2
    /\ config.num_negative = {2}
    /\ Len(Rows(ret.batch.question)) = 10

\* C2: with with_answers = True the target has the length of the triple
\* sequence, is 1 at the first n positions and 0 at every later one,
\* whatever is_eval and num_negative; with with_answers = False the result
\* has no "target" key.
C2_TargetAlignment ==
    ret.op = "create_batch" =>
        IF ret.with_answers
        THEN /\ ret.batch.ports = {"question", "target"}
             /\ Len(Rows(ret.batch.target)) = Len(Rows(ret.batch.question))
             /\ \A i \in DOMAIN Rows(ret.batch.target) :
                   Rows(ret.batch.target)[i] = (IF i <= N THEN 1 ELSE 0)
        ELSE ret.batch.ports = {"question"}

C2_Witness ==
    /\ ret.op = "create_batch" /\ ret.with_answers /\ ~ret.is_eval
    /\ N = 2
    /\ config.num_negative = {1}
    /\ Rows(ret.batch.target) = <<1, 1, 0, 0, 0, 0>>

\* C3: create_batch with is_eval = True corrupts nothing: the returned
\* triples are the n positives, in their order, whatever num_negative.
C3_EvaluationMode ==
    (ret.op = "create_batch" /\ ret.is_eval) =>
        /\ ret.err = NoError
        /\ Len(Rows(ret.batch.question)) = N
        /\ \A i \in 1..N : Rows(ret.batch.question)[i] = Positives[i]

C3_Witness ==
    /\ ret.op = "create_batch" /\ ret.is_eval
    /\ N = 2
    /\ Positives[1] # Positives[2]
    /\ config.num_negative = {2}
    /\ Len(Rows(ret.batch.question)) = 2

\* the entity and predicate tokens the training texts show
EntityTokens(texts) ==
    UNION {{toks[1], toks[3]} : toks \in UNION {TokensShown(texts[i]) : i \in DOMAIN texts}}

PredicateTokens(texts) ==
    {toks[2] : toks \in UNION {TokensShown(texts[i]) : i \in DOMAIN texts}}

\* map is one-to-one from exactly the tokens onto 0 .. |tokens| - 1
NumbersExactly(map, tokens) ==
    /\ DOMAIN map = tokens
    /\ Range(map) = 0..(Cardinality(tokens) - 1)
    /\ \A x, y \in tokens : map[x] = map[y] => x = y

\* C4: after setup_from_data on well-formed training triples,
\* entity_to_index numbers exactly the distinct subject and object tokens
\* one-to-one by [0, number of entities), predicate_to_index exactly the
\* distinct predicate tokens by [0, number of predicates).
C4_VocabularyBijection ==
    (ret.op = "setup_from_data" /\ \A i \in DOMAIN ret.texts :
                                      \A toks \in TokensShown(ret.texts[i]) : Len(toks) = 3) =>
        /\ ret.err = NoError
        /\ IsSet(entity_to_index) /\ IsSet(predicate_to_index)
        /\ NumbersExactly(ValueOf(entity_to_index), EntityTokens(ret.texts))
        /\ NumbersExactly(ValueOf(predicate_to_index), PredicateTokens(ret.texts))

C4_Witness ==
    /\ ret.op = "setup_from_data" /\ ret.err = NoError
    /\ Len(ret.texts) = 2
    /\ IsSet(entity_to_index)
    /\ DOMAIN ValueOf(entity_to_index) = {TokA, TokB, TokAB}
    /\ DOMAIN ValueOf(predicate_to_index) = {TokR, TokS}

\* the last call failed and returned nothing
FailedClean == ret.err # NoError /\ ret.out = <<>>

\* a question of the last call shows three tokens of which one is not in
\* the vocabulary
AsksUnknownToken ==
    \E i \in DOMAIN ret.texts : \E toks \in TokensShown(ret.texts[i]) :
        /\ Len(toks) = 3
        /\ \/ toks[1] \notin DOMAIN ValueOf(entity_to_index)
           \/ toks[3] \notin DOMAIN ValueOf(entity_to_index)
           \/ toks[2] \notin DOMAIN ValueOf(predicate_to_index)

\* C5: once the vocabulary is built, a preprocess call with a question whose
\* subject, object or predicate token is not in it fails and returns no
\* triple, and no preprocess or create_batch call, failing or not, changes
\* entity_to_index or predicate_to_index.
C5_UnknownTokenFails ==
    [][/\ (ret.op = "preprocess" /\ IsSet(entity_to_index) /\ AsksUnknownToken
             => FailedClean)'
       /\ (IsSet(entity_to_index) /\ ret'.op \in {"preprocess", "create_batch"})
             => UNCHANGED <<entity_to_index, predicate_to_index, config>>]_vars

C5_Witness ==
    /\ ret.op = "preprocess"
    /\ IsSet(entity_to_index)
    /\ ret.texts = <<Render(<<TokA, TokR, TokB>>, Plain), Render(<<TokAB, TokS, TokAB>>, Ragged)>>
    /\ DOMAIN ValueOf(entity_to_index) = {TokA, TokB}
    /\ ret.err = "KeyError"
    /\ ret.out = <<>>

AsksKnownTokens ==
    \A i \in DOMAIN ret.texts : \A toks \in TokensShown(ret.texts[i]) :
        /\ Len(toks) = 3
        /\ toks[1] \in DOMAIN ValueOf(entity_to_index)
        /\ toks[3] \in DOMAIN ValueOf(entity_to_index)
        /\ toks[2] \in DOMAIN ValueOf(predicate_to_index)

\* C7: on well-formed questions whose tokens are all in the vocabulary,
\* preprocess returns one triple per question, in order, the i-th being
\* [entity_to_index[s_i], predicate_to_index[p_i], entity_to_index[o_i]]:
\* a function of the vocabulary and the questions alone, whatever answers,
\* is_eval and the calls before.
C7_PreprocessMapsInOrder ==
    (ret.op = "preprocess" /\ (ret.texts = <<>> \/ (IsSet(entity_to_index) /\ AsksKnownTokens))) =>
        /\ ret.err = NoError
        /\ Len(ret.out) = Len(ret.texts)
        /\ \A i \in DOMAIN ret.texts : \A toks \in TokensShown(ret.texts[i]) :
              ret.out[i] = <<ValueOf(entity_to_index)[toks[1]],
                             ValueOf(predicate_to_index)[toks[2]],
                             ValueOf(entity_to_index)[toks[3]]>>

C7_Witness ==
    /\ ret.op = "preprocess" /\ ret.err = NoError
    /\ ret.is_eval /\ ret.answers
    /\ ret.texts = <<Render(<<TokAB, TokS, TokAB>>, Ragged), Render(<<TokA, TokR, TokB>>, Plain)>>
    /\ Len(ret.out) = 2
    /\ ret.out[1] # ret.out[2]

\* a text of the last call shows fewer or more than three tokens
AsksMalformed ==
    \E i \in DOMAIN ret.texts : \E toks \in TokensShown(ret.texts[i]) : Len(toks) # 3

\* C8: setup_from_data and preprocess reject, with an error and without a
\* result, a text that does not split into exactly 3 tokens; a
\* setup_from_data that rejects its input sets no entity_to_index or
\* predicate_to_index and publishes none to the configuration.
C8_MalformedRejected ==
    [][/\ (ret.op \in {"setup_from_data", "preprocess"} /\ AsksMalformed => FailedClean)'
       /\ (ret'.op = "setup_from_data" /\ ret'.err # NoError)
             => UNCHANGED <<entity_to_index, predicate_to_index, config>>]_vars

C8_Witness ==
    /\ ret.op = "setup_from_data"
    /\ ret.texts = <<Render(<<TokA, TokR, TokB>>, Plain), Render(<<TokA, TokR, TokB, TokA>>, Plain)>>
    /\ ret.err = "ValueError"
    /\ ~IsSet(entity_to_index)
    /\ ~IsSet(config.entity_to_index)

\* C9: given m questions and m logits the output module returns m answers,
\* the i-th carrying the text of questions[i] and logits[i] as its score.
C9_OutputAlignment ==
    (ret.op = "__call__" /\ Len(ret.texts) = Len(ret.logits)) =>
        /\ ret.err = NoError
        /\ Len(ret.out) = Len(ret.texts)
        /\ \A i \in DOMAIN ret.texts :
              /\ ret.out[i].text = ret.texts[i]
              /\ ret.out[i].score = ret.logits[i]

C9_Witness ==
    /\ ret.op = "__call__" /\ ret.err = NoError
    /\ Len(ret.texts) = 2 /\ Len(ret.logits) = 2
    /\ ret.texts[1] # ret.texts[2]
    /\ ret.logits[1] # ret.logits[2]
    /\ Len(ret.out) = 2

\* C10: with is_eval = False the corrupted rows follow the n positives,
\* grouped by positive in input order: for the i-th positive (s, p, o) and
\* repetition j < k, row n + 2(ik + j) is (s', p, o) and the next row is
\* (s, p, o'), s' and o' in [0, number of entities), which is 0 when there
\* is one entity.
C10_CorruptionOrder ==
    (ret.op = "create_batch" /\ ~ret.is_eval) =>
        \A k \in 0..MaxNeg :
            ConfiguredNegatives(k) =>
                /\ \A i \in 1..N : Rows(ret.batch.question)[i] = Positives[i]
                /\ \A i \in 0..(N - 1), j \in 0..(k - 1) :
                      LET at == N + 2 * (i * k + j)
                          pos == Positives[i + 1]
                          rows == Rows(ret.batch.question)
                      IN  /\ at + 2 <= Len(rows)
                          /\ rows[at + 1][1] \in 0..(NbEntities - 1)
                          /\ rows[at + 1][2] = pos[2]
                          /\ rows[at + 1][3] = pos[3]
                          /\ rows[at + 2][1] = pos[1]
                          /\ rows[at + 2][2] = pos[2]
                          /\ rows[at + 2][3] \in 0..(NbEntities - 1)

C10_Witness ==
    /\ ret.op = "create_batch" /\ ~ret.is_eval
    /\ N = 2
    /\ Positives[1] # Positives[2]
    /\ config.num_negative = {2}
    /\ NbEntities = 2
    /\ Rows(ret.batch.question)[N + 1][1] # Positives[1][1]
    /\ Rows(ret.batch.question)[N + 6][3] # Positives[2][3]

====
